---- MODULE Spec2Model ----
(***************************************************************************)
(* PortfolioApp: the gallery / lightbox controller of the media portfolio  *)
(* (src/unnamed/part_001 lines 106-471, the lazy-loading controller; the   *)
(* eager controller src/js/gallery.js has the same handlers) together with *)
(* the media manifest it reads (lines 1-104).                              *)
(*                                                                         *)
(* Every event listener the controller registers is one action; an action  *)
(* runs its handler to completion, as the browser's event loop does.  A    *)
(* handler is an operator from a state record to a state record, composed  *)
(* statement by statement in source order.  The variable log holds the     *)
(* playback calls and DOM effects of the last step, in execution order.    *)
(***************************************************************************)
EXTENDS Integers, Sequences, FiniteSets, TLC

VARIABLES
    MEDIA_DATA,       \* the manifest: [images, videos], each a sequence of [src, date]
    ALL_MEDIA,        \* the catalog built from the manifest at load time
    innerWidth,       \* window.innerWidth, as the class "narrow" / "wide"
    missing,          \* ids for which cacheDOM's getElementById returned null
    currentView,      \* this.currentView: "hero" | "gallery"
    currentFilter,    \* this.currentFilter: "image" | "video"
    filteredMedia,    \* this.filteredMedia
    swiper,           \* this.swiper: 0 (null) or the id of a Swiper instance
    lightboxIndex,    \* this.lightboxIndex: NaN while undefined or not a number
    heroHidden,       \* #heroCover has class hidden
    galleryHidden,    \* #galleryView has class hidden
    slides,           \* children of #swiperWrapper
    currentIndexEl,   \* text of #currentIndex
    totalItemsEl,     \* text of #totalItems
    lightboxActive,   \* #lightbox has class active
    lightboxContent,  \* children of #lightboxContent
    bodyOverflow,     \* document.body.style.overflow
    liveSwipers,      \* Swiper instances constructed and not destroyed
    swiperCount,      \* Swiper instances constructed so far
    activeIndex,      \* active index of the instance attached to .gallery-swiper
    timers,           \* pending 300 ms timeouts, in firing order
    loader,           \* hideLoader's closure and the elements it writes
    log               \* playback calls and DOM effects of the last step, in order

vars == <<MEDIA_DATA, ALL_MEDIA, innerWidth, missing, currentView, currentFilter,
          filteredMedia, swiper, lightboxIndex, heroHidden, galleryHidden,
          slides, currentIndexEl, totalItemsEl, lightboxActive,
          lightboxContent, bodyOverflow, liveSwipers, swiperCount,
          activeIndex, timers, loader, log>>

----------------------------------------------------------------------------
(* Bounds of the model *)

\* pending transition timeouts at any one time
MaxTimers == 2
\* Swiper instances constructed in one run
MaxSwipers == 2

(* Program constants *)

\* slides rendered on a narrow viewport
MOBILE_CAP == 20
\* the value of lightboxIndex while it is undefined or NaN
NaN == -1

Filters == {"image", "video"}
Keys == {"Escape", "ArrowLeft", "ArrowRight", "Enter"}

Min(a, b) == IF a < b THEN a ELSE b

----------------------------------------------------------------------------
(* The manifest and the catalog *)

\* Dates of the spec's scenario: 1 = 2024-01-01, 2 = 2024-06-01, 3 = 2025-01-01.
Entry(kind, i, d) == [src |-> <<kind, i>>, date |-> d]

Manifest(imageDates, videoDates) ==
    [images |-> [i \in 1..Len(imageDates) |-> Entry("image", i, imageDates[i])],
     videos |-> [i \in 1..Len(videoDates) |-> Entry("video", i, videoDates[i])]]

\* The page loads the model is run on, as <<manifest, viewport class>>: the
\* spec's scenario; three images with a shared date and two videos listed
\* oldest first, one of them sharing the date; a manifest with no video.
Loads ==
    { <<Manifest(<<1, 3>>, <<2>>), "wide">>,
      <<Manifest(<<2, 1, 2>>, <<1, 2>>), "narrow">>,
      <<Manifest(<<3>>, <<>>), "wide">> }

Tag(list, t) ==
    [i \in 1..Len(list) |-> [src |-> list[i].src, date |-> list[i].date, type |-> t]]

\* Array.prototype.sort with (a, b) => new Date(b.date) - new Date(a.date):
\* a stable sort, newest first.  InsertByDate puts x behind every element
\* that is not older than x.
RECURSIVE InsertByDate(_, _)
InsertByDate(x, sorted) ==
    IF sorted = <<>> THEN <<x>>
    ELSE IF Head(sorted).date >= x.date
         THEN <<Head(sorted)>> \o InsertByDate(x, Tail(sorted))
         ELSE <<x>> \o sorted

RECURSIVE SortNewestFirst(_)
SortNewestFirst(list) ==
    IF list = <<>> THEN <<>>
    ELSE InsertByDate(list[Len(list)], SortNewestFirst(SubSeq(list, 1, Len(list) - 1)))

\* the catalog left in manifest order
BuildAllMediaUnsorted(data) ==
    Tag(data.images, "image") \o Tag(data.videos, "video")

BuildAllMedia(data) ==
    SortNewestFirst(Tag(data.images, "image") \o Tag(data.videos, "video"))

\* ALL_MEDIA.filter(m => m.type === filter)
FilterByType(media, filter) == SelectSeq(media, LAMBDA m : m.type = filter)

----------------------------------------------------------------------------
(* The state record the handlers work on *)

State ==
    [ALL_MEDIA |-> ALL_MEDIA, innerWidth |-> innerWidth, missing |-> missing,
     currentView |-> currentView, currentFilter |-> currentFilter,
     filteredMedia |-> filteredMedia, swiper |-> swiper,
     lightboxIndex |-> lightboxIndex, heroHidden |-> heroHidden,
     galleryHidden |-> galleryHidden, slides |-> slides,
     currentIndexEl |-> currentIndexEl, totalItemsEl |-> totalItemsEl,
     lightboxActive |-> lightboxActive, lightboxContent |-> lightboxContent,
     bodyOverflow |-> bodyOverflow, liveSwipers |-> liveSwipers,
     swiperCount |-> swiperCount, activeIndex |-> activeIndex,
     timers |-> timers, log |-> <<>>]

Becomes(s) ==
    /\ ALL_MEDIA' = s.ALL_MEDIA
    /\ innerWidth' = s.innerWidth
    /\ currentView' = s.currentView
    /\ currentFilter' = s.currentFilter
    /\ filteredMedia' = s.filteredMedia
    /\ swiper' = s.swiper
    /\ lightboxIndex' = s.lightboxIndex
    /\ heroHidden' = s.heroHidden
    /\ galleryHidden' = s.galleryHidden
    /\ slides' = s.slides
    /\ currentIndexEl' = s.currentIndexEl
    /\ totalItemsEl' = s.totalItemsEl
    /\ lightboxActive' = s.lightboxActive
    /\ lightboxContent' = s.lightboxContent
    /\ bodyOverflow' = s.bodyOverflow
    /\ liveSwipers' = s.liveSwipers
    /\ swiperCount' = s.swiperCount
    /\ activeIndex' = s.activeIndex
    /\ timers' = s.timers
    /\ log' = s.log

Logged(s, what) == [s EXCEPT !.log = Append(@, what)]

\* this.<id> is null: document.getElementById(id) found no element
Null(s, id) == id \in s.missing

\* a property of null is read: the handler ends there with a TypeError, the
\* statements before it have run and those after it have not
Throws(s) == Logged(s, "TypeError (null element)")

----------------------------------------------------------------------------
(* Video playback *)

\* document.querySelector('.swiper-slide-active'): the slide the attached
\* Swiper instance marks active; 0 when there is none.
ActiveSlide(s) ==
    IF s.swiper \in s.liveSwipers /\ s.activeIndex + 1 \in DOMAIN s.slides
    THEN s.activeIndex + 1 ELSE 0

\* a pause that toggles each overlay instead of showing it
pauseAllVideosToggleOverlay(s) ==
    LET paused == [i \in DOMAIN s.slides |->
                     IF s.slides[i].type = "video"
                     THEN [s.slides[i] EXCEPT !.playing = FALSE,
                                              !.currentTime = 0,
                                              !.overlay = ~@]
                     ELSE s.slides[i]]
    IN  Logged([s EXCEPT !.slides = paused], "pauseAllVideos")

\* pauseAllVideos: every '.gallery-swiper video' is paused and rewound, every
\* '.video-overlay' is shown.  The lightbox is not inside .gallery-swiper.
pauseAllVideos(s) ==
    LET paused == [i \in DOMAIN s.slides |->
                     IF s.slides[i].type = "video"
                     THEN [s.slides[i] EXCEPT !.playing = FALSE,
                                              !.currentTime = 0,
                                              !.overlay = TRUE]
                     ELSE s.slides[i]]
    IN  Logged([s EXCEPT !.slides = paused], "pauseAllVideos")

\* handleVideoAutoplay: played tells whether the browser lets video.play()
\* start playback (TRUE) or rejects the promise (FALSE).
\* an autoplay check that starts the active video without pausing the others
handleVideoAutoplayNoPause(s, played) ==
    LET s1 == Logged(s, "handleVideoAutoplay")
        a  == ActiveSlide(s1)
    IN  IF a # 0 /\ s1.slides[a].type = "video"
        THEN Logged([s1 EXCEPT !.slides[a].src = TRUE,
                               !.slides[a].playing = played,
                               !.slides[a].overlay = FALSE],
                    IF played THEN "play" ELSE "play rejected")
        ELSE s1

handleVideoAutoplay(s, played) ==
    LET s1 == pauseAllVideos(Logged(s, "handleVideoAutoplay"))
        a  == ActiveSlide(s1)
    IN  IF a # 0 /\ s1.slides[a].type = "video"
        THEN Logged([s1 EXCEPT !.slides[a].src = TRUE,
                               !.slides[a].playing = played,
                               !.slides[a].overlay = FALSE],
                    IF played THEN "play" ELSE "play rejected")
        ELSE s1

\* updateCounter(index)
updateCounter(s, index) ==
    [s EXCEPT !.currentIndexEl = IF Null(s, "currentIndex") THEN @ ELSE index + 1,
              !.totalItemsEl = IF Null(s, "totalItems") THEN @
                               ELSE Len(s.filteredMedia)]

----------------------------------------------------------------------------
(* Slides and the carousel *)

\* a slide tagged with its 1-based position
SlideOneBased(media, index) ==
    [index |-> index + 1, item |-> media.src, type |-> media.type,
     src |-> FALSE, playing |-> FALSE, currentTime |-> 0, overlay |-> TRUE]

Slide(media, index) ==
    [index |-> index, item |-> media.src, type |-> media.type,
     src |-> FALSE, playing |-> FALSE, currentTime |-> 0, overlay |-> TRUE]

\* the viewport test with the comparison the wrong way round
isMobileInverted(s) == s.innerWidth = "wide"

isMobile(s) == s.innerWidth = "narrow"

\* a render that leaves the total display at the length of the whole view
renderSlidesTotalOfView(s) ==
    LET mediaToRender ==
            IF isMobile(s)
            THEN SubSeq(s.filteredMedia, 1, Min(MOBILE_CAP, Len(s.filteredMedia)))
            ELSE s.filteredMedia
        cleared == Logged([s EXCEPT !.slides = <<>>], "clear swiperWrapper")
        filled  == [cleared EXCEPT !.slides =
                      [i \in 1..Len(mediaToRender) |-> Slide(mediaToRender[i], i - 1)]]
    IN  updateCounter(Logged(filled, "append slides"), 0)

\* a render that appends to what the container already holds
renderSlidesNoClear(s) ==
    LET mediaToRender ==
            IF isMobile(s)
            THEN SubSeq(s.filteredMedia, 1, Min(MOBILE_CAP, Len(s.filteredMedia)))
            ELSE s.filteredMedia
        filled == [s EXCEPT !.slides = @ \o
                      [i \in 1..Len(mediaToRender) |-> Slide(mediaToRender[i], i - 1)]]
    IN  [updateCounter(Logged(filled, "append slides"), 0)
            EXCEPT !.totalItemsEl = Len(mediaToRender)]

\* renderSlides: clears #swiperWrapper, appends one slide per rendered item,
\* resets the counter and shows the rendered count.
renderSlides(s) ==
    IF Null(s, "swiperWrapper") THEN s ELSE
    LET mediaToRender ==
            IF isMobile(s)
            THEN SubSeq(s.filteredMedia, 1, Min(MOBILE_CAP, Len(s.filteredMedia)))
            ELSE s.filteredMedia
        cleared == Logged([s EXCEPT !.slides = <<>>], "clear swiperWrapper")
        filled  == [cleared EXCEPT !.slides =
                      [i \in 1..Len(mediaToRender) |-> Slide(mediaToRender[i], i - 1)]]
        counted == updateCounter(Logged(filled, "append slides"), 0)
    IN  IF Null(s, "totalItems") THEN counted
        ELSE [counted EXCEPT !.totalItemsEl = Len(mediaToRender)]

\* swiper.destroy(true, true): the instance releases its listeners and DOM state
destroySwiper(s) ==
    Logged([s EXCEPT !.liveSwipers = @ \ {s.swiper}], "swiper.destroy")

\* initSwiper: drops slides beyond the narrow-viewport cap, constructs a new
\* Swiper on .gallery-swiper (it starts at slide 0) and runs the autoplay check.
initSwiper(s, played) ==
    LET maxSlides == IF isMobile(s) THEN MOBILE_CAP ELSE Len(s.filteredMedia)
        trimmed ==
            IF isMobile(s) /\ Len(s.filteredMedia) > maxSlides
            THEN [s EXCEPT !.slides = SubSeq(@, 1, Min(maxSlides, Len(@)))]
            ELSE s
        id == s.swiperCount + 1
        built == Logged([trimmed EXCEPT !.swiper = id,
                                        !.swiperCount = id,
                                        !.liveSwipers = @ \cup {id},
                                        !.activeIndex = 0],
                        "new Swiper")
    IN  IF isMobile(s) /\ Len(s.filteredMedia) > maxSlides /\ Null(s, "swiperWrapper")
        THEN Throws(s)
        ELSE handleVideoAutoplay(built, played)

----------------------------------------------------------------------------
(* View transitions *)

showGallery(s) ==
    LET s1 == [s EXCEPT !.currentView = "gallery"]
    IN  IF Null(s, "heroCover") THEN Throws(s1)
        ELSE [s1 EXCEPT !.heroHidden = TRUE,
                        !.timers = Append(@, "gallery")]

\* a gallery timer that renders and constructs whether or not an instance exists
galleryTimeoutAlwaysInit(s, played) ==
    initSwiper(renderSlides([s EXCEPT !.galleryHidden = FALSE]), played)

\* the timeout set by showGallery
galleryTimeout(s, played) ==
    IF Null(s, "galleryView") THEN Throws(s) ELSE
    LET shown == [s EXCEPT !.galleryHidden = FALSE]
    IN  IF shown.swiper = 0
        THEN initSwiper(renderSlides(shown), played)
        ELSE shown

showHero(s) ==
    LET s1 == [s EXCEPT !.currentView = "hero"]
    IN  IF Null(s, "galleryView") THEN Throws(s1)
        ELSE pauseAllVideos([s1 EXCEPT !.galleryHidden = TRUE,
                                       !.timers = Append(@, "hero")])

\* the timeout set by showHero
heroTimeout(s) ==
    IF Null(s, "heroCover") THEN Throws(s)
    ELSE [s EXCEPT !.heroHidden = FALSE]

----------------------------------------------------------------------------
(* Tab switching *)

\* the tab switch that keeps the view computed for the previous filter
handleTabSwitchStaleView(s, filter, played) ==
    LET s1 == [s EXCEPT !.currentFilter = filter]
        s2 == renderSlides(s1)
        s3 == IF s2.swiper # 0 THEN destroySwiper(s2) ELSE s2
    IN  initSwiper(s3, played)

\* the tab switch that constructs the new instance beside the old one
handleTabSwitchNoDestroy(s, filter, played) ==
    LET s1 == [s EXCEPT !.currentFilter = filter,
                        !.filteredMedia = FilterByType(s.ALL_MEDIA, filter)]
    IN  initSwiper(renderSlides(s1), played)

\* a filter switch that also declares the gallery to be the current view
handleTabSwitchEntersGallery(s, filter, played) ==
    LET s1 == [s EXCEPT !.currentFilter = filter,
                        !.currentView = "gallery",
                        !.filteredMedia = FilterByType(s.ALL_MEDIA, filter)]
        s2 == renderSlides(s1)
        s3 == IF s2.swiper # 0 THEN destroySwiper(s2) ELSE s2
    IN  initSwiper(s3, played)

handleTabSwitch(s, filter, played) ==
    LET s1 == [s EXCEPT
                  !.currentFilter = filter,
                  !.filteredMedia = FilterByType(s.ALL_MEDIA, filter)]
        s2 == renderSlides(s1)
        s3 == IF s2.swiper # 0 THEN destroySwiper(s2) ELSE s2
    IN  initSwiper(s3, played)

----------------------------------------------------------------------------
(* Lightbox *)

\* this.filteredMedia[index] is undefined for NaN and for an index out of range
Defined(s, index) == index # NaN /\ index + 1 \in DOMAIN s.filteredMedia

\* the lightbox opened without pausing the carousel
openLightboxNoPause(s, index) ==
    LET s1 == [s EXCEPT !.lightboxIndex = index]
        s2 == Logged([s1 EXCEPT !.lightboxContent = <<>>], "clear lightboxContent")
    IN  IF ~Defined(s, index)
        THEN Logged(s2, "TypeError")
        ELSE LET media == s.filteredMedia[index + 1]
                 el == [tag |-> IF media.type = "video" THEN "video" ELSE "img",
                        item |-> media.src,
                        autoplay |-> media.type = "video",
                        playing |-> FALSE]
                 s3 == Logged([s2 EXCEPT !.lightboxContent = Append(@, el)],
                              "append media")
                 s4 == Logged([s3 EXCEPT !.lightboxActive = TRUE], "show lightbox")
             IN  [s4 EXCEPT !.bodyOverflow = "hidden"]

\* openLightbox(index).  Reading media.type of an undefined item throws a
\* TypeError: the statements before it have run, those after it have not.
openLightbox(s, index) ==
    LET s1 == [s EXCEPT !.lightboxIndex = index]
        s2 == Logged([s1 EXCEPT !.lightboxContent = <<>>], "clear lightboxContent")
    IN  IF Null(s, "lightboxContent") THEN Throws(s1)
        ELSE IF ~Defined(s, index)
        THEN Logged(s2, "TypeError")
        ELSE LET media == s.filteredMedia[index + 1]
                 el == [tag |-> IF media.type = "video" THEN "video" ELSE "img",
                        item |-> media.src,
                        autoplay |-> media.type = "video",
                        playing |-> FALSE]
                 s3 == Logged([s2 EXCEPT !.lightboxContent = Append(@, el)],
                              "append media")
                 s4 == Logged([s3 EXCEPT !.lightboxActive = TRUE], "show lightbox")
                 s5 == [s4 EXCEPT !.bodyOverflow = "hidden"]
             IN  IF Null(s, "lightbox") THEN Throws(s3) ELSE pauseAllVideos(s5)

\* a close that leaves the lightbox's own video running
closeLightboxNoPause(s, played) ==
    LET s1 == Logged([s EXCEPT !.lightboxActive = FALSE], "hide lightbox")
    IN  handleVideoAutoplay([s1 EXCEPT !.bodyOverflow = ""], played)

\* a close that moves the carousel to the item last viewed in the lightbox
closeLightboxResumesLastViewed(s, played) ==
    LET s1 == [Logged([s EXCEPT !.lightboxActive = FALSE], "hide lightbox")
                  EXCEPT !.bodyOverflow = ""]
        s2 == [s1 EXCEPT !.lightboxContent =
                 [i \in DOMAIN @ |->
                    IF @[i].tag = "video"
                    THEN [@[i] EXCEPT !.playing = FALSE, !.autoplay = FALSE]
                    ELSE @[i]]]
        s3 == IF s.lightboxIndex \in 0..(Len(s.slides) - 1)
              THEN [s2 EXCEPT !.activeIndex = s.lightboxIndex] ELSE s2
    IN  handleVideoAutoplay(s3, played)

\* closeLightbox: video.pause() also ends a pending autoplay of that element
closeLightbox(s, played) ==
    IF Null(s, "lightbox") THEN Throws(s) ELSE
    LET s1 == [Logged([s EXCEPT !.lightboxActive = FALSE], "hide lightbox")
                  EXCEPT !.bodyOverflow = ""]
        hasVideo == \E i \in DOMAIN s.lightboxContent : s.lightboxContent[i].tag = "video"
        s2 == [s1 EXCEPT !.lightboxContent =
                 [i \in DOMAIN @ |->
                    IF @[i].tag = "video"
                    THEN [@[i] EXCEPT !.playing = FALSE, !.autoplay = FALSE]
                    ELSE @[i]]]
        s3 == IF hasVideo THEN Logged(s2, "pause lightbox video") ELSE s2
    IN  IF Null(s, "lightboxContent") THEN Throws(s1)
        ELSE handleVideoAutoplay(s3, played)

\* (this.lightboxIndex + direction + total) % total; NaN when lightboxIndex is
\* undefined or NaN, or total is 0
\* JavaScript's % : the remainder takes the sign of the dividend
JsRem(a, b) == IF a >= 0 THEN a % b ELSE 0 - ((0 - a) % b)

\* a navigation that forgets "+ total": stepping back from index 0 leaves the view
WrapNoTotal(index, direction, total) ==
    IF total = 0 THEN NaN ELSE JsRem(index + direction, total)

Wrap(index, direction, total) ==
    IF index = NaN \/ total = 0 THEN NaN
    ELSE JsRem(index + direction + total, total)

\* a navigation that moves the index and leaves the displayed element alone
navigateLightboxNoReopen(s, direction) ==
    [s EXCEPT !.lightboxIndex = Wrap(s.lightboxIndex, direction, Len(s.filteredMedia))]

navigateLightbox(s, direction) ==
    LET total == Len(s.filteredMedia)
        s1 == [s EXCEPT
                 !.lightboxIndex = Wrap(s.lightboxIndex, direction, total)]
    IN  openLightbox(s1, s1.lightboxIndex)

\* a keyboard handler whose arrow keys are not guarded by the lightbox being open
handleKeyboardArrowsAlways(s, key, played) ==
    CASE key = "ArrowLeft"  -> navigateLightbox(s, -1)
      [] key = "ArrowRight" -> navigateLightbox(s, 1)
      [] key = "Escape" /\ s.lightboxActive -> closeLightbox(s, played)
      [] key = "Enter" /\ ~s.lightboxActive /\ s.currentView = "hero" -> showGallery(s)
      [] key = "Escape" /\ ~s.lightboxActive /\ s.currentView = "gallery" -> showHero(s)
      [] OTHER -> s

\* a keyboard handler whose branches are not exclusive: Escape closes the
\* lightbox and then also leaves the gallery
handleKeyboardFallThrough(s, key, played) ==
    LET s1 == IF s.lightboxActive
              THEN CASE key = "Escape"     -> closeLightbox(s, played)
                     [] key = "ArrowLeft"  -> navigateLightbox(s, -1)
                     [] key = "ArrowRight" -> navigateLightbox(s, 1)
                     [] OTHER              -> s
              ELSE s
    IN  IF s1.currentView = "hero" /\ key = "Enter" THEN showGallery(s1)
        ELSE IF s1.currentView = "gallery" /\ key = "Escape" THEN showHero(s1)
        ELSE s1

handleKeyboard(s, key, played) ==
    IF ~Null(s, "lightbox") /\ s.lightboxActive
        THEN CASE key = "Escape"     -> closeLightbox(s, played)
               [] key = "ArrowLeft"  -> navigateLightbox(s, -1)
               [] key = "ArrowRight" -> navigateLightbox(s, 1)
               [] OTHER              -> s
        ELSE IF s.currentView = "hero" /\ key = "Enter" THEN showGallery(s)
        ELSE IF s.currentView = "gallery" /\ key = "Escape" THEN showHero(s)
        ELSE s

\* the Swiper "slideChange" callback; the instance is at index already
onSlideChange(s, played) ==
    handleVideoAutoplay(updateCounter(s, s.activeIndex), played)

\* the Swiper "click" callback; target is the position in #swiperWrapper of
\* the slide e.target.closest('.swiper-slide') finds, 0 when it finds none
\* a click handler that opens the lightbox for whichever slide was clicked
onSwiperClickAnySlide(s, target) ==
    IF target # 0 THEN openLightbox(s, s.slides[target].index) ELSE s

onSwiperClick(s, target) ==
    IF target # 0 /\ target = ActiveSlide(s)
    THEN openLightbox(s, s.slides[target].index)
    ELSE s

----------------------------------------------------------------------------
(* Events *)

EnterGalleryClick ==
    /\ "enterGalleryBtn" \notin missing
    /\ Len(timers) < MaxTimers
    /\ Becomes(showGallery(State))
    /\ UNCHANGED <<MEDIA_DATA, missing, loader>>

BackToHeroClick ==
    /\ "backToHeroBtn" \notin missing
    /\ Len(timers) < MaxTimers
    /\ Becomes(showHero(State))
    /\ UNCHANGED <<MEDIA_DATA, missing, loader>>

TimeoutFires ==
    /\ timers # <<>>
    /\ \E played \in BOOLEAN :
          LET s == [State EXCEPT !.timers = Tail(@)]
          IN  IF Head(timers) = "gallery"
              THEN Becomes(galleryTimeout(s, played))
              ELSE Becomes(heroTimeout(s))
    /\ UNCHANGED <<MEDIA_DATA, missing, loader>>

TabClick ==
    /\ swiperCount < MaxSwipers
    /\ \E filter \in Filters, played \in BOOLEAN :
          Becomes(handleTabSwitch(State, filter, played))
    /\ UNCHANGED <<MEDIA_DATA, missing, loader>>

\* the carousel widget moves to another slide (arrow key, wheel, drag, bullet)
SlideChange ==
    /\ swiper \in liveSwipers
    /\ \E index \in 0..(Len(slides) - 1), played \in BOOLEAN :
          /\ index # activeIndex
          /\ Becomes(onSlideChange([State EXCEPT !.activeIndex = index], played))
    /\ UNCHANGED <<MEDIA_DATA, missing, loader>>

SwiperClick ==
    /\ swiper \in liveSwipers
    /\ \E target \in 0..Len(slides) : Becomes(onSwiperClick(State, target))
    /\ UNCHANGED <<MEDIA_DATA, missing, loader>>

LightboxCloseClick ==
    /\ "lightboxClose" \notin missing
    /\ \E played \in BOOLEAN : Becomes(closeLightbox(State, played))
    /\ UNCHANGED <<MEDIA_DATA, missing, loader>>

\* a click inside #lightbox closes it only when it hits the backdrop itself
LightboxClick ==
    /\ "lightbox" \notin missing
    /\ \E onBackdrop \in BOOLEAN, played \in BOOLEAN :
          IF onBackdrop THEN Becomes(closeLightbox(State, played))
          ELSE Becomes(State)
    /\ UNCHANGED <<MEDIA_DATA, missing, loader>>

LightboxPrevClick ==
    /\ "lightboxPrev" \notin missing
    /\ Becomes(navigateLightbox(State, -1))
    /\ UNCHANGED <<MEDIA_DATA, missing, loader>>

LightboxNextClick ==
    /\ "lightboxNext" \notin missing
    /\ Becomes(navigateLightbox(State, 1))
    /\ UNCHANGED <<MEDIA_DATA, missing, loader>>

KeyDown ==
    /\ \E key \in Keys, played \in BOOLEAN :
          LET after == handleKeyboard(State, key, played)
          IN  /\ Len(after.timers) <= MaxTimers
              /\ Becomes(after)
    /\ UNCHANGED <<MEDIA_DATA, missing, loader>>

\* the browser starts, or refuses to start, the lightbox video's autoplay
LightboxAutoplay ==
    /\ lightboxContent # <<>>
    /\ lightboxContent[1].autoplay
    /\ \E allowed \in BOOLEAN :
          Becomes([State EXCEPT !.lightboxContent[1].autoplay = FALSE,
                                !.lightboxContent[1].playing = allowed])
    /\ UNCHANGED <<MEDIA_DATA, missing, loader>>

\* a playing carousel video moves off position 0
PlaybackAdvances ==
    /\ \E i \in DOMAIN slides :
          /\ slides[i].playing
          /\ slides[i].currentTime = 0
          /\ Becomes([State EXCEPT !.slides[i].currentTime = 1])
    /\ UNCHANGED <<MEDIA_DATA, missing, loader>>

----------------------------------------------------------------------------
(* The loader *)

\* Math.random() * 20 + 10 lies in [10, 30); whole percentages stand for it
Increments == 10..29

\* hideLoader: progress = 0 and a 150 ms interval started; nothing drawn yet.
\* ticks and hides count the interval callbacks run and the times class hidden
\* was added to #loader.
hideLoader ==
    [progress |-> 0, interval |-> TRUE, width |-> 0, pending |-> 0,
     hidden |-> FALSE, ticks |-> 0, hides |-> 0]

\* an interval callback that caps the progress but leaves the interval running
intervalCallbackNoClear(l, absent, increment) ==
    LET sum  == l.progress + increment
        done == sum >= 100
        p    == IF done THEN 100 ELSE sum
    IN  [l EXCEPT !.progress = p,
                  !.pending = IF done THEN @ + 1 ELSE @,
                  !.width = IF "progressBar" \in absent THEN @ ELSE p,
                  !.ticks = @ + 1]

\* the setInterval callback of hideLoader
intervalCallback(l, absent, increment) ==
    LET sum  == l.progress + increment
        done == sum >= 100
        p    == IF done THEN 100 ELSE sum
    IN  [l EXCEPT !.progress = p,
                  !.interval = IF done THEN FALSE ELSE @,
                  !.pending = IF done THEN @ + 1 ELSE @,
                  !.width = IF "progressBar" \in absent THEN @ ELSE p,
                  !.ticks = @ + 1]

\* the 400 ms callback: this.loader?.classList.add('hidden')
loaderTimeout(l, absent) ==
    [l EXCEPT !.pending = @ - 1,
              !.hidden = IF "loader" \in absent THEN @ ELSE TRUE,
              !.hides = IF "loader" \in absent THEN @ ELSE @ + 1]

\* everything hideLoader and its callbacks neither read nor write
appVars == <<MEDIA_DATA, ALL_MEDIA, innerWidth, missing, currentView,
             currentFilter, filteredMedia, swiper, lightboxIndex, heroHidden,
             galleryHidden, slides, currentIndexEl, totalItemsEl,
             lightboxActive, lightboxContent, bodyOverflow, liveSwipers,
             swiperCount, activeIndex, timers, log>>

\* the interval fires while it has not been cleared
LoaderTick ==
    /\ loader.interval
    /\ \E increment \in Increments :
          loader' = intervalCallback(loader, missing, increment)
    /\ UNCHANGED appVars

\* the 400 ms timeout set by the last tick fires
LoaderTimeoutFires ==
    /\ loader.pending > 0
    /\ loader' = loaderTimeout(loader, missing)
    /\ UNCHANGED appVars

----------------------------------------------------------------------------
(* The specification *)

\* new PortfolioApp() on DOMContentLoaded, over the page as served: hero
\* shown, gallery hidden, no slide, lightbox closed.
\* the state new PortfolioApp() leaves, for the manifest and viewport loaded
Constructed ==
    /\ ALL_MEDIA = BuildAllMedia(MEDIA_DATA)
    /\ currentView = "hero"
    /\ currentFilter = "image"
    /\ filteredMedia = FilterByType(ALL_MEDIA, "image")
    /\ swiper = 0
    /\ lightboxIndex = NaN
    /\ heroHidden = FALSE
    /\ galleryHidden = TRUE
    /\ slides = <<>>
    /\ currentIndexEl = 1
    /\ totalItemsEl = 0
    /\ lightboxActive = FALSE
    /\ lightboxContent = <<>>
    /\ bodyOverflow = ""
    /\ liveSwipers = {}
    /\ swiperCount = 0
    /\ activeIndex = 0
    /\ timers = <<>>
    /\ loader = hideLoader
    /\ log = <<>>

Init ==
    /\ \E load \in Loads : MEDIA_DATA = load[1] /\ innerWidth = load[2]
    /\ missing = {}
    /\ Constructed

Next ==
    \/ EnterGalleryClick
    \/ BackToHeroClick
    \/ TimeoutFires
    \/ TabClick
    \/ SlideChange
    \/ SwiperClick
    \/ LightboxCloseClick
    \/ LightboxClick
    \/ LightboxPrevClick
    \/ LightboxNextClick
    \/ KeyDown
    \/ LightboxAutoplay
    \/ PlaybackAdvances

Spec == Init /\ [][Next]_vars

\* The same program loaded with longer image lists (1 .. MaxView images and one
\* video, wide viewport): the views the lightbox walks through get every length
\* up to MaxView.
MaxView == 4

LightboxLoads ==
    {<<Manifest([i \in 1..n |-> i], <<1>>), "wide">> : n \in 1..MaxView}

InitLightbox ==
    /\ \E load \in LightboxLoads : MEDIA_DATA = load[1] /\ innerWidth = load[2]
    /\ missing = {}
    /\ Constructed

SpecLightbox == InitLightbox /\ [][Next]_vars

\* The same program loaded with image lists around and above the narrow-viewport
\* cap (MOBILE_CAP - 1, MOBILE_CAP, MOBILE_CAP + 1 and MaxItems images, one
\* video), on either viewport, and driven by the events that render slides:
\* entering and leaving the gallery, the transition timers, the filter tabs and
\* the keyboard.
MaxItems == 50

RenderLoads ==
    {<<Manifest([i \in 1..n |-> i], <<1>>), width>> :
        n \in {MOBILE_CAP - 1, MOBILE_CAP, MOBILE_CAP + 1, MaxItems},
        width \in {"narrow", "wide"}}

InitRender ==
    /\ \E load \in RenderLoads : MEDIA_DATA = load[1] /\ innerWidth = load[2]
    /\ missing = {}
    /\ Constructed

NextRender ==
    \/ EnterGalleryClick
    \/ BackToHeroClick
    \/ TimeoutFires
    \/ TabClick
    \/ KeyDown

SpecRender == InitRender /\ [][NextRender]_vars

\* The same program loaded into documents that lack some of the elements
\* cacheDOM looks up (two images and a video, wide viewport).
Mounts ==
    {"heroCover", "galleryView", "enterGalleryBtn", "backToHeroBtn",
     "swiperWrapper", "currentIndex", "totalItems",
     "lightbox", "lightboxContent", "lightboxClose", "lightboxPrev", "lightboxNext"}

Documents ==
    {{}, {"heroCover"}, {"galleryView"}, {"lightbox"}, {"lightboxContent"},
     {"swiperWrapper", "currentIndex", "totalItems"},
     {"enterGalleryBtn", "backToHeroBtn", "lightboxClose", "lightboxPrev",
      "lightboxNext"}}

InitDOM ==
    /\ MEDIA_DATA = Manifest(<<1, 3>>, <<2>>)
    /\ innerWidth = "wide"
    /\ missing \in Documents
    /\ Constructed

SpecDOM == InitDOM /\ [][Next]_vars

----------------------------------------------------------------------------
(* Observations used by the properties *)

PlayingCarouselVideos == {i \in DOMAIN slides : slides[i].playing}

PlayingLightboxVideos == {i \in DOMAIN lightboxContent : lightboxContent[i].playing}

\* the last step made this call or had this effect
Called(what) == \E i \in DOMAIN log : log[i] = what

\* where in the last step it first happened; 0 when it did not
FirstAt(what) ==
    IF Called(what)
    THEN CHOOSE i \in DOMAIN log : log[i] = what /\ \A j \in 1..(i - 1) : log[j] # what
    ELSE 0

\* where in the last step it last happened; 0 when it did not
LastAt(what) ==
    IF Called(what)
    THEN CHOOSE i \in DOMAIN log :
             log[i] = what /\ \A j \in (i + 1)..Len(log) : log[j] # what
    ELSE 0

----------------------------------------------------------------------------
(* Video playback coordination *)

\* C1: right after a step that called pauseAllVideos (alone or through
\* handleVideoAutoplay), at most one video of the document is playing,
\* carousel videos and the lightbox video counted together.
C1_AtMostOneVideoPlaying ==
    Called("pauseAllVideos") =>
        Cardinality(PlayingCarouselVideos) + Cardinality(PlayingLightboxVideos) <= 1

\* C2: while the lightbox is open no carousel video is playing.
C2_NoCarouselPlaybackUnderLightbox ==
    lightboxActive => PlayingCarouselVideos = {}

\* C3: while the view is the hero no carousel video is playing.
C3_NoCarouselPlaybackInHero ==
    currentView = "hero" => PlayingCarouselVideos = {}

\* C4: a rejected play attempt leaves the active slide's play-overlay
\* visible, and an overlay is hidden only over a video whose play succeeded.
C4_OverlayHiddenOnlyOnSuccessfulPlay ==
    /\ Called("play rejected") => slides[activeIndex + 1].overlay
    /\ \A i \in DOMAIN slides :
          (slides[i].type = "video" /\ ~slides[i].overlay) => slides[i].playing

----------------------------------------------------------------------------
(* Ordering inside the handlers *)

\* C5 as claimed: whenever openLightbox inserts its media element and shows
\* the overlay, pauseAllVideos was called before both.
C5_PauseBeforeDisplay ==
    Called("append media") =>
        /\ Called("pauseAllVideos")
        /\ FirstAt("pauseAllVideos") < FirstAt("append media")
        /\ FirstAt("pauseAllVideos") < FirstAt("show lightbox")

\* C5 (amended): whenever openLightbox inserts its media element and shows
\* the overlay, it calls pauseAllVideos after both, as its last step, and no
\* carousel video is playing when it returns.
C5_PauseAfterDisplay ==
    (Called("append media") /\ Called("show lightbox")) =>
        /\ FirstAt("append media") < FirstAt("show lightbox")
        /\ FirstAt("show lightbox") < FirstAt("pauseAllVideos")
        /\ LastAt("pauseAllVideos") = Len(log)
        /\ PlayingCarouselVideos = {}

\* a lightbox just opened over a carousel of videos
C5_Witness ==
    /\ Called("show lightbox")
    /\ lightboxActive
    /\ \E i \in DOMAIN slides : slides[i].type = "video"

\* C6: on a filter change with a carousel instance in place, the instance
\* is destroyed before the slide container is cleared.
C6_DestroyBeforeClear ==
    (Called("swiper.destroy") /\ Called("clear swiperWrapper")) =>
        FirstAt("swiper.destroy") < FirstAt("clear swiperWrapper")

----------------------------------------------------------------------------
(* Filter switches *)

\* what the slide container holds for a view: one slide per item of the
\* first n items, tagged with its position
RendersPrefix(rendered, view, n) ==
    /\ Len(rendered) = n
    /\ \A k \in 1..n :
          /\ rendered[k].index = k - 1
          /\ rendered[k].item = view[k].src
          /\ rendered[k].type = view[k].type

\* the items of the catalog of one type, as positions in the catalog
Matching(catalog, filter) == {i \in DOMAIN catalog : catalog[i].type = filter}

\* view lists exactly the catalog entries of that type, in catalog order
IsViewOf(view, catalog, filter) ==
    /\ Len(view) = Cardinality(Matching(catalog, filter))
    /\ \A k \in DOMAIN view :
          \E i \in Matching(catalog, filter) :
              /\ view[k] = catalog[i]
              /\ Cardinality({j \in Matching(catalog, filter) : j < i}) = k - 1

\* a step that is handleTabSwitch for this filter
IsTabSwitch(filter) ==
    \E played \in BOOLEAN : Becomes(handleTabSwitch(State, filter, played))

\* C7: a tab click on the current filter changes neither the filter, the
\* view, the slides, the carousel instance nor the navigation position.
C7_SameFilterIsNoOp ==
    [][IsTabSwitch(currentFilter) =>
          UNCHANGED <<currentFilter, filteredMedia, slides, swiper, liveSwipers,
                      swiperCount, activeIndex, currentIndexEl, totalItemsEl>>]_vars

\* C8: after a tab click the filter, the view, the slides and the one live
\* carousel instance are those of the clicked filter, the instance is one
\* that did not exist before, and the position is the first item.
C8_TabClickRebuildsForFilter ==
    [][\A filter \in Filters :
          IsTabSwitch(filter) =>
              /\ currentFilter' = filter
              /\ IsViewOf(filteredMedia', ALL_MEDIA', filter)
              /\ RendersPrefix(slides', filteredMedia',
                               IF innerWidth = "narrow"
                               THEN Min(MOBILE_CAP, Len(filteredMedia'))
                               ELSE Len(filteredMedia'))
              /\ liveSwipers' = {swiper'}
              /\ swiper' \notin 0..swiperCount
              /\ activeIndex' = 0
              /\ currentIndexEl' = 1]_vars

\* a tab click has replaced an instance by one for the video filter
C8_Witness ==
    /\ Called("swiper.destroy")
    /\ currentFilter = "video"
    /\ slides # <<>>
    /\ swiperCount = 2

\* the manifest of the scenario: images of 2024-01-01 and 2025-01-01, a
\* video of 2024-06-01
Scenario == Manifest(<<1, 3>>, <<2>>)

Dates(view) == [k \in DOMAIN view |-> view[k].date]

\* C9: the view always lists exactly the catalog entries of the current
\* filter, in catalog order; in the scenario that is 2025-01-01, 2024-01-01
\* under image and 2024-06-01 under video.
C9_ViewIsCatalogFilteredByType ==
    /\ IsViewOf(filteredMedia, ALL_MEDIA, currentFilter)
    /\ MEDIA_DATA = Scenario =>
          Dates(filteredMedia) = IF currentFilter = "image" THEN <<3, 1>> ELSE <<2>>

\* the video view of the scenario, after a switch
C9_Witness ==
    /\ MEDIA_DATA = Scenario
    /\ currentFilter = "video"
    /\ filteredMedia # <<>>
    /\ swiperCount = 2

\* every entry of the sub-list appears in the catalog once, tagged with the type
Holds(catalog, list, t) ==
    \A i \in DOMAIN list :
        Cardinality({k \in DOMAIN catalog :
                        catalog[k] = [src |-> list[i].src, date |-> list[i].date,
                                      type |-> t]}) = 1

\* C10: the catalog is the manifest's images and videos, each tagged with
\* its type, newest first, and no step changes it.
C10_CatalogIsSortedManifestAndConstant ==
    /\ [](/\ Len(ALL_MEDIA) = Len(MEDIA_DATA.images) + Len(MEDIA_DATA.videos)
          /\ Holds(ALL_MEDIA, MEDIA_DATA.images, "image")
          /\ Holds(ALL_MEDIA, MEDIA_DATA.videos, "video")
          /\ \A i, j \in DOMAIN ALL_MEDIA :
                i < j => ALL_MEDIA[i].date >= ALL_MEDIA[j].date)
    /\ [][ALL_MEDIA' = ALL_MEDIA]_vars

\* a manifest that is not in date order, after filter switches and with the
\* lightbox open
C10_Witness ==
    /\ BuildAllMediaUnsorted(MEDIA_DATA) # ALL_MEDIA
    /\ swiperCount = 2
    /\ lightboxActive
    /\ currentView = "gallery"

\* ---------------------------------------------------------------------------
\* Lightbox navigation (checked under SpecLightbox, views of 1 .. MaxView items)

InView == lightboxIndex # NaN /\ lightboxIndex < Len(filteredMedia)

\* C11: for every view of at least one item and every lightbox index inside it,
\* navigateLightbox(+1) followed by navigateLightbox(-1), and navigateLightbox(-1)
\* followed by navigateLightbox(+1), bring the lightbox back to that index.
C11_NavigateThereAndBack ==
    InView =>
        \A direction \in {-1, 1} :
            navigateLightbox(navigateLightbox(State, direction),
                             0 - direction).lightboxIndex = lightboxIndex

\* the lightbox has just navigated from the first item back to the last one of a
\* view of at least three items (the carousel still stands on the first slide)
C11_Witness ==
    /\ lightboxActive /\ Called("show lightbox")
    /\ Len(filteredMedia) >= 3
    /\ activeIndex = 0
    /\ lightboxIndex = Len(filteredMedia) - 1

\* a step that is one call of navigateLightbox(direction): a click on the
\* previous/next button, or an arrow key handled while the lightbox is open
IsNavigate(direction) == Becomes(navigateLightbox(State, direction))

\* the lightbox displays exactly the media element of view[index]
Displays(content, view, index) ==
    /\ Len(content) = 1
    /\ index + 1 \in DOMAIN view
    /\ content[1].item = view[index + 1].src
    /\ content[1].tag = (IF view[index + 1].type = "video" THEN "video" ELSE "img")

\* C12: navigateLightbox(direction), direction -1 or +1, called with a numeric
\* index on a non-empty view, sets the index to (index + direction + total) mod
\* total for the current view length total (index 0 with -1 gives total - 1,
\* index total - 1 with +1 gives 0) and re-opens the lightbox on that item.
C12_NavigateWrapsAndReopens ==
    [][\A direction \in {-1, 1} :
         (IsNavigate(direction) /\ lightboxIndex # NaN /\ Len(filteredMedia) >= 1) =>
            LET total == Len(filteredMedia)
            IN  /\ lightboxIndex' = (lightboxIndex + direction + total) % total
                /\ (lightboxIndex = 0 /\ direction = -1 => lightboxIndex' = total - 1)
                /\ (lightboxIndex = total - 1 /\ direction = 1 => lightboxIndex' = 0)
                /\ lightboxActive'
                /\ Displays(lightboxContent', filteredMedia, lightboxIndex')
                /\ filteredMedia' = filteredMedia]_vars

\* the lightbox of a 3-item view, opened on item 0, has stepped back to item 2
C12_Witness ==
    /\ lightboxActive /\ Called("show lightbox")
    /\ Len(filteredMedia) = 3
    /\ activeIndex = 0
    /\ lightboxIndex = 2
    /\ Displays(lightboxContent, filteredMedia, 2)

\* C13: a navigateLightbox performed while the lightbox is open, in particular the
\* first one after a filter switch, yields an index inside the current view
\* (0 <= index < current length) and displays the item of the current filter at
\* that index.
C13_NavigateStaysInCurrentView ==
    [][\A direction \in {-1, 1} :
         (lightboxActive /\ IsNavigate(direction)) =>
            /\ lightboxIndex' # NaN
            /\ lightboxIndex' < Len(filteredMedia')
            /\ Displays(lightboxContent', filteredMedia', lightboxIndex')
            /\ filteredMedia'[lightboxIndex' + 1].type = currentFilter']_vars

\* C14: whenever the lightbox is open, its index is a position of the current
\* view (0 <= index < length) and the displayed media element is the item of the
\* current view at that index, also after a filter switch made while it is open.
C14_OpenLightboxShowsCurrentViewItem ==
    lightboxActive => (InView /\ Displays(lightboxContent, filteredMedia, lightboxIndex))

\* a step that is one call of openLightbox from a click on the active slide
IsOpenClick ==
    \E target \in DOMAIN slides :
        target = ActiveSlide(State) /\ Becomes(onSwiperClick(State, target))

\* a step that is one call of closeLightbox
IsClose == \E played \in BOOLEAN : Becomes(closeLightbox(State, played))

\* C15: the lightbox starts Closed and changes state only along
\* Closed -open(index)-> Open(index), Open -close-> Closed and
\* Open -navigate(-1/+1)-> Open(newIndex): only a click on the active slide
\* opens it, so a previous/next or arrow-key event received while it is Closed
\* does not.
C15_LightboxStateMachine ==
    /\ ~lightboxActive
    /\ [][/\ (~lightboxActive /\ lightboxActive') => IsOpenClick
          /\ (lightboxActive /\ ~lightboxActive') => IsClose
          /\ (lightboxActive /\ lightboxActive' /\ lightboxIndex' # lightboxIndex)
                => \E direction \in {-1, 1} : IsNavigate(direction)]_vars

\* ---------------------------------------------------------------------------
\* Keyboard

\* a step that is one call of handleKeyboard for that key
IsKey(key) == \E played \in BOOLEAN : Becomes(handleKeyboard(State, key, played))

\* C16: while the lightbox is open, Escape closes it, ArrowLeft is
\* navigateLightbox(-1), ArrowRight is navigateLightbox(+1), and no key press
\* changes the view (hero / gallery).
C16_KeysWhileLightboxOpen ==
    [][lightboxActive =>
         /\ IsKey("Escape") => (IsClose /\ ~lightboxActive')
         /\ IsKey("ArrowLeft") => IsNavigate(-1)
         /\ IsKey("ArrowRight") => IsNavigate(1)
         /\ \A key \in Keys : IsKey(key) => currentView' = currentView]_vars

\* the lightbox is open over the gallery after an arrow-key or button
\* navigation, and Escape pressed now closes it
C16_Witness ==
    /\ lightboxActive /\ currentView = "gallery"
    /\ Called("show lightbox") /\ lightboxIndex # activeIndex
    /\ ~handleKeyboard(State, "Escape", TRUE).lightboxActive
    /\ handleKeyboard(State, "ArrowRight", TRUE).lightboxIndex # lightboxIndex

\* C17: while the lightbox is closed, Enter in the hero view is enterGallery and
\* Escape in the gallery view is exitGallery; every other key / view combination
\* (Enter in the gallery, Escape in the hero, ArrowLeft, ArrowRight) leaves the
\* view, the filter and the lightbox state unchanged.
C17_KeysWhileLightboxClosed ==
    [][~lightboxActive =>
         \A key \in Keys :
            IsKey(key) =>
               IF currentView = "hero" /\ key = "Enter"
               THEN Becomes(showGallery(State)) /\ currentView' = "gallery"
               ELSE IF currentView = "gallery" /\ key = "Escape"
               THEN Becomes(showHero(State)) /\ currentView' = "hero"
               ELSE UNCHANGED <<currentView, currentFilter, filteredMedia,
                                lightboxActive, lightboxIndex, lightboxContent>>]_vars

\* Escape has just taken a gallery with a carousel and a once-used, closed
\* lightbox back to the hero view, where the arrow keys now do nothing
C17_Witness ==
    /\ ~lightboxActive /\ lightboxIndex # NaN
    /\ currentView = "hero" /\ galleryHidden /\ heroHidden
    /\ timers = <<"hero">>
    /\ handleKeyboard(State, "ArrowRight", TRUE) = State
    /\ handleKeyboard(State, "Enter", TRUE).currentView = "gallery"

\* ---------------------------------------------------------------------------
\* View transitions and the carousel instance

\* C18: from every state with the hero view and the lightbox closed, also with a
\* timer of an earlier exitGallery still pending, Enter makes the view "gallery",
\* and once every pending timer has fired the hero content is hidden.
C18_EnterHidesHero ==
    /\ [][(currentView = "hero" /\ ~lightboxActive /\ IsKey("Enter"))
            => currentView' = "gallery"]_vars
    /\ []((currentView = "gallery" /\ timers = <<>>) => heroHidden)

\* enterGallery followed by the firing of its timer, from a state without
\* pending timers
EnterGalleryAgain(played) ==
    galleryTimeout([showGallery(State) EXCEPT !.timers = Tail(@)], played)

\* C19: with the view already "gallery" and every timer fired, a second
\* enterGallery (its timer fired too) leaves the view, the hero and gallery
\* visibility, the rendered slides, the carousel instance and the carousel
\* position as they were, and renders or constructs nothing.
C19_SecondEnterGalleryChangesNothing ==
    (currentView = "gallery" /\ timers = <<>>) =>
        \A played \in BOOLEAN :
            LET again == EnterGalleryAgain(played)
            IN  /\ again.currentView = currentView
                /\ again.heroHidden = heroHidden
                /\ again.galleryHidden = galleryHidden
                /\ again.slides = slides
                /\ again.swiper = swiper
                /\ again.liveSwipers = liveSwipers
                /\ again.activeIndex = activeIndex
                /\ again.log = <<>>

\* which items the slide container holds, in order
Rendered(list) == [i \in DOMAIN list |-> list[i].item]

\* a step that is the firing of the oldest pending timer
IsTimeout == timers # <<>> /\ timers' = Tail(timers)

\* C20: at most one live carousel instance exists in every state, and it is the
\* one the application holds; an instance is replaced only by a filter switch,
\* which destroys the old one before it constructs the new one; enterGallery and
\* exitGallery and their timers keep an existing instance, its slides and its
\* position, and render and construct only when there is none.
C20_AtMostOneLiveCarousel ==
    /\ [](/\ Cardinality(liveSwipers) <= 1
          /\ liveSwipers = (IF swiper = 0 THEN {} ELSE {swiper})
          /\ (Called("swiper.destroy") /\ Called("new Swiper"))
                => LastAt("swiper.destroy") < FirstAt("new Swiper"))
    /\ [][/\ (swiper # 0 /\ swiper' # swiper) => \E filter \in Filters : IsTabSwitch(filter)
          /\ (swiper # 0 /\ (IsTimeout \/ currentView' # currentView))
                => /\ UNCHANGED <<swiper, liveSwipers, swiperCount, activeIndex>>
                   /\ Rendered(slides') = Rendered(slides)
                   /\ ~Called("append slides")' /\ ~Called("new Swiper")'
          /\ (swiper = 0 /\ IsTimeout /\ timers[1] = "gallery")
                => (swiper' # 0 /\ liveSwipers' = {swiper'})]_vars

\* two enterGallery timers were pending with no carousel; the first has fired
\* and built the one instance, the second is still to fire
C20_Witness ==
    /\ timers = <<"gallery">>
    /\ ~galleryHidden
    /\ Called("new Swiper")
    /\ swiperCount = 1 /\ liveSwipers = {1}

\* C21: the view is "hero" initially and is changed only by enterGallery and
\* exitGallery (button or key): filter switches, slide changes, slide clicks,
\* timers and the lightbox operations leave it unchanged.
C21_ViewChangedOnlyByEnterAndExit ==
    /\ currentView = "hero"
    /\ [][/\ (currentView' # currentView)
                => (Becomes(showGallery(State)) \/ Becomes(showHero(State)))
          /\ (currentView' # currentView)
                => ~(\/ \E filter \in Filters : IsTabSwitch(filter)
                     \/ IsOpenClick \/ IsClose \/ IsTimeout
                     \/ \E direction \in {-1, 1} : IsNavigate(direction)
                     \/ \E played \in BOOLEAN :
                           Becomes(onSlideChange(
                                     [State EXCEPT !.activeIndex = activeIndex'],
                                     played)))]_vars

\* in the gallery view a filter switch has just replaced the carousel, after the
\* lightbox had been used
C21_Witness ==
    /\ currentView = "gallery"
    /\ Called("swiper.destroy")
    /\ currentFilter = "video"
    /\ lightboxIndex # NaN

\* ---------------------------------------------------------------------------
\* Missing elements and invalid indexes

\* C22 (checked under SpecDOM): whichever of the looked-up elements are absent
\* from the document, no controller operation ends with an exception.
C22_MissingElementsNeverThrow ==
    (missing \subseteq Mounts) => ~Called("TypeError (null element)")

\* C23: no call of openLightbox reads the view out of bounds or ends with an
\* exception: when a call has run, the lightbox index lies inside the current
\* view (clamped, or the call rejected before it changed anything).
C23_OpenNeverReadsOutOfBounds ==
    /\ ~Called("TypeError")
    /\ Called("clear lightboxContent") => InView

\* ---------------------------------------------------------------------------
\* Rendering (checked under SpecRender, views of MOBILE_CAP - 1 .. MaxItems items)

\* how many slides a render of the view produces on this viewport
RenderedCount(view, width) ==
    IF width = "narrow" THEN Min(MOBILE_CAP, Len(view)) ELSE Len(view)

\* C24: once slides have been rendered, their number is min(20, |FilteredView|)
\* on a narrow viewport and |FilteredView| on a wide one; a view of MaxItems
\* items gives exactly MOBILE_CAP slides narrow and MaxItems slides wide.
C24_RenderedSlideCount ==
    swiper # 0 =>
        /\ Len(slides) = RenderedCount(filteredMedia, innerWidth)
        /\ (Len(filteredMedia) = MaxItems /\ innerWidth = "narrow")
              => Len(slides) = MOBILE_CAP
        /\ (Len(filteredMedia) = MaxItems /\ innerWidth = "wide")
              => Len(slides) = MaxItems

\* a view of MaxItems images has just been rendered on a narrow viewport
C24_Witness ==
    /\ Called("append slides")
    /\ innerWidth = "narrow"
    /\ Len(filteredMedia) = MaxItems
    /\ Len(slides) = MOBILE_CAP

\* C25: the rendered slides are a prefix of the view: the k-th slide (0-based)
\* carries the tag k and shows FilteredView[k], with or without the
\* narrow-viewport truncation.
C25_SlidesArePrefixOfView ==
    /\ Len(slides) <= Len(filteredMedia)
    /\ \A k \in 0..(Len(slides) - 1) :
          /\ slides[k + 1].index = k
          /\ slides[k + 1].item = filteredMedia[k + 1].src
          /\ slides[k + 1].type = filteredMedia[k + 1].type

\* a truncated render: the last of the MOBILE_CAP slides of a longer view
C25_Witness ==
    /\ Called("append slides")
    /\ Len(filteredMedia) > MOBILE_CAP
    /\ Len(slides) = MOBILE_CAP
    /\ slides[MOBILE_CAP].index = MOBILE_CAP - 1
    /\ slides[MOBILE_CAP].item = filteredMedia[MOBILE_CAP].src

\* C26: rendering is a full replace: right after a renderSlides call the slide
\* container was emptied first and holds exactly the slides rendered for the
\* current view, none of them left from an earlier render or filter.
C26_RenderIsFullReplace ==
    Called("append slides") =>
        /\ Called("clear swiperWrapper")
        /\ FirstAt("clear swiperWrapper") < FirstAt("append slides")
        /\ RendersPrefix(slides, filteredMedia,
                         RenderedCount(filteredMedia, innerWidth))
        /\ \A k \in DOMAIN slides : slides[k].type = currentFilter

\* the one-video view has just been rendered over the slides of the image view
C26_Witness ==
    /\ Called("append slides") /\ Called("swiper.destroy")
    /\ currentFilter = "video"
    /\ Len(filteredMedia) = 1
    /\ Len(slides) = 1

\* C27: right after a renderSlides call the position counter shows 1 and the
\* total display shows the number of slides actually rendered, which on a
\* narrow viewport is the capped count.
C27_CounterAfterRender ==
    Called("append slides") =>
        /\ currentIndexEl = 1
        /\ totalItemsEl = Len(slides)
        /\ totalItemsEl = RenderedCount(filteredMedia, innerWidth)

\* a truncated render has just set the counter to 1 of MOBILE_CAP
C27_Witness ==
    /\ Called("append slides")
    /\ innerWidth = "narrow"
    /\ Len(filteredMedia) > MOBILE_CAP
    /\ currentIndexEl = 1
    /\ totalItemsEl = MOBILE_CAP

\* ---------------------------------------------------------------------------
\* Opening and closing the lightbox

\* C28: a click in the carousel opens the lightbox only when it hits the active
\* slide, and then at that slide's tagged index; a click on an inactive slide
\* or outside every slide (target 0) changes nothing.
C28_OnlyActiveSlideClickOpens ==
    [][\A target \in 0..Len(slides) :
          (swiper \in liveSwipers /\ Becomes(onSwiperClick(State, target))) =>
              IF target # 0 /\ target = ActiveSlide(State)
              THEN /\ lightboxActive'
                   /\ lightboxIndex' = slides[target].index
                   /\ Displays(lightboxContent', filteredMedia, slides[target].index)
              ELSE UNCHANGED <<MEDIA_DATA, ALL_MEDIA, innerWidth, missing, currentView,
                               currentFilter, filteredMedia, swiper, lightboxIndex,
                               heroHidden, galleryHidden, slides, currentIndexEl,
                               totalItemsEl, lightboxActive, lightboxContent,
                               bodyOverflow, liveSwipers, swiperCount, activeIndex,
                               timers>>]_vars

\* the second slide is active beside an inactive first one, and a click on it
\* has just opened the lightbox at index 1
C28_Witness ==
    /\ Called("show lightbox")
    /\ lightboxActive
    /\ activeIndex = 1 /\ lightboxIndex = 1
    /\ Len(slides) >= 2
    /\ slides[2].index = 1

\* C29: closeLightbox hides the overlay, restores page scroll, pauses the
\* lightbox's own video if there is one, and only then runs the active-slide
\* playback logic: after it the lightbox video is not playing, and the only
\* video played or attempted is that of the carousel's active slide (none when
\* the active slide is an image).
C29_CloseThenResumeCarousel ==
    Called("hide lightbox") =>
        /\ ~lightboxActive /\ bodyOverflow = ""
        /\ PlayingLightboxVideos = {}
        /\ \A i \in DOMAIN lightboxContent : ~lightboxContent[i].autoplay
        /\ FirstAt("hide lightbox") < FirstAt("handleVideoAutoplay")
        /\ Called("pause lightbox video")
              => LastAt("pause lightbox video") < FirstAt("handleVideoAutoplay")
        /\ PlayingCarouselVideos \subseteq {ActiveSlide(State)}
        /\ (Called("play") \/ Called("play rejected"))
              <=> (ActiveSlide(State) # 0 /\ slides[ActiveSlide(State)].type = "video")

\* a lightbox showing a video has just been closed and the active slide's video
\* has started again
C29_Witness ==
    /\ Called("hide lightbox") /\ Called("pause lightbox video")
    /\ Called("play")
    /\ PlayingCarouselVideos = {ActiveSlide(State)}
    /\ lightboxIndex = activeIndex

\* ---------------------------------------------------------------------------
\* Playback coordination

\* the state a handler leaves, without the record of its calls
Unlogged(s) == [s EXCEPT !.log = <<>>]

\* C30: pauseAllVideos is idempotent: the first call leaves every carousel video
\* paused at position 0 with its play overlay visible, and a second call right
\* after it changes nothing.
C30_PauseAllVideosIdempotent ==
    LET once  == pauseAllVideos(State)
        twice == pauseAllVideos(once)
    IN  /\ Unlogged(twice) = Unlogged(once)
        /\ \A i \in DOMAIN once.slides :
              once.slides[i].type = "video" =>
                 /\ ~once.slides[i].playing
                 /\ once.slides[i].currentTime = 0
                 /\ once.slides[i].overlay

\* a carousel video is playing past position 0 with its overlay hidden, so the
\* first pauseAllVideos changes the state
C30_Witness ==
    /\ \E i \in DOMAIN slides :
          slides[i].playing /\ slides[i].currentTime = 1 /\ ~slides[i].overlay
    /\ Unlogged(pauseAllVideos(State)) # State

\* ---- the loader, which shares no state with the handlers above ----

\* the page as served, with or without a #progressBar element
InitLoader ==
    /\ MEDIA_DATA = Manifest(<<1, 3>>, <<2>>)
    /\ innerWidth = "wide"
    /\ missing \in {{}, {"progressBar"}}
    /\ Constructed

NextLoader == LoaderTick \/ LoaderTimeoutFires

\* timers that are due do fire
SpecLoader ==
    /\ InitLoader /\ [][NextLoader]_vars
    /\ WF_vars(LoaderTick) /\ WF_vars(LoaderTimeoutFires)

\* C31: right after a handleVideoAutoplay call every carousel video outside the
\* active slide is paused at position 0 with its play overlay visible; play is
\* attempted only on the active slide's video, and only when the active slide
\* has one, so never under the image filter.
C31_AutoplayOnlyOnActiveSlide ==
    /\ Called("handleVideoAutoplay") =>
          /\ \A i \in DOMAIN slides :
                (i # ActiveSlide(State) /\ slides[i].type = "video") =>
                    /\ ~slides[i].playing
                    /\ slides[i].currentTime = 0
                    /\ slides[i].overlay
          /\ PlayingCarouselVideos \subseteq {ActiveSlide(State)}
    /\ (Called("play") \/ Called("play rejected")) =>
          /\ ActiveSlide(State) # 0
          /\ slides[ActiveSlide(State)].type = "video"
          /\ currentFilter = "video"

\* the carousel has moved from the first video to the second one, which plays
C31_Witness ==
    /\ Called("handleVideoAutoplay") /\ Called("play")
    /\ Len(slides) = 2 /\ slides[1].type = "video"
    /\ activeIndex = 1
    /\ slides[2].playing /\ ~slides[1].playing

\* C32: a lightbox navigation (and the open it performs) while the current
\* view is empty is a no-op: the index does not become NaN, no undefined item
\* is read, and the lightbox state stays as it was.
C32_NavigateOnEmptyViewIsNoOp ==
    [][\A direction \in {-1, 1} :
         (Len(filteredMedia) = 0 /\ IsNavigate(direction)) =>
            /\ lightboxIndex' # NaN
            /\ ~Called("TypeError")'
            /\ UNCHANGED <<lightboxIndex, lightboxActive,
                           lightboxContent, bodyOverflow>>]_vars

\* C33: whenever no transition timer is pending, exactly one of the hero and
\* gallery presentations is visible and it is the one currentView names,
\* whatever the interleaving of enterGallery and exitGallery calls.
C33_OnePresentationVisibleWhenSettled ==
    timers = <<>> =>
        /\ heroHidden # galleryHidden
        /\ (currentView = "hero") = ~heroHidden
        /\ (currentView = "gallery") = ~galleryHidden

\* ---- the carousel on a narrow viewport with more items than the cap ----

\* a manifest whose image view is one item longer than the mobile cap
MobileLoad == Manifest([i \in 1..(MOBILE_CAP + 1) |-> i], <<>>)

InitMobile ==
    /\ MEDIA_DATA = MobileLoad
    /\ innerWidth = "narrow"
    /\ missing = {}
    /\ Constructed

\* entering the gallery, moving the carousel and using the lightbox
NextMobile ==
    \/ EnterGalleryClick
    \/ TimeoutFires
    \/ SlideChange
    \/ SwiperClick
    \/ LightboxCloseClick
    \/ LightboxPrevClick
    \/ LightboxNextClick

SpecMobile == InitMobile /\ [][NextMobile]_vars

\* C34: in every reachable state the total shown in the counter equals the
\* number of slides rendered in the carousel, also on a narrow viewport after
\* slideChange events, and the position shown is the active index plus one.
C34_CounterMatchesCarousel ==
    /\ totalItemsEl = Len(slides)
    /\ currentIndexEl = activeIndex + 1

\* C35: every item the lightbox shows has a rendered slide: on a narrow
\* viewport lightbox navigation wraps within the rendered slides and never
\* reaches an index at or beyond the mobile cap.
C35_LightboxStaysWithinRenderedSlides ==
    lightboxContent # <<>> =>
        /\ lightboxIndex # NaN
        /\ lightboxIndex < Len(slides)
        /\ innerWidth = "narrow" => lightboxIndex < MOBILE_CAP

\* C36: page scroll is locked exactly when the lightbox is open: body overflow
\* is hidden if and only if the overlay is active, and while it is open the
\* lightbox content holds exactly one media element, however many navigations
\* have occurred.
C36_ScrollLockedIffLightboxOpen ==
    /\ (bodyOverflow = "hidden") = lightboxActive
    /\ lightboxActive => Len(lightboxContent) = 1

C38_LoaderTerminates ==
    /\ [](loader.progress <= 100 /\ loader.width <= 100 /\ loader.ticks <= 10)
    /\ [](loader.interval = (loader.progress < 100))
    /\ [](loader.hides <= 1 /\ (loader.hidden => ~loader.interval))
    /\ [][(loader'.width >= loader.width)
           /\ (loader'.progress >= loader.progress)
           /\ (~loader.interval => loader'.ticks = loader.ticks)
           /\ (loader'.hides # loader.hides => ~loader.interval)]_vars
    /\ <>[](loader.hidden /\ loader.hides = 1 /\ loader.pending = 0)

\* ten ticks of the smallest increment filled the bar, then the loader was hidden
C38_Witness ==
    /\ loader.ticks = 10
    /\ loader.width = 100
    /\ ~loader.interval
    /\ loader.hidden /\ loader.hides = 1

====
